---- MODULE Spec2Model ----
(***************************************************************************)
(* t7m: the memoizing Cache (src/src/hono/types.ts, class Cache, lines     *)
(* 115-165) and the transformer engine with its cache lifecycle            *)
(* (src/src/abstractTransformer.ts, class AbstractTransformer, lines       *)
(* 119-320).                                                               *)
(*                                                                         *)
(* JavaScript runs one macro-step at a time: a step of this model is the   *)
(* synchronous code between two awaits.                                    *)
(***************************************************************************)
EXTENDS Integers, Sequences, FiniteSets, TLC

(***************************************************************************)
(* Bounds of the model.                                                    *)
(***************************************************************************)
MaxCacheCalls == 3
MaxClears == 1
MaxCalls == 2
MaxManualClears == 1
MaxRepeatedClears == 2

(***************************************************************************)
(* JavaScript values.  Every value is a record of the same shape, so that  *)
(* values of different JavaScript types can be compared:                   *)
(*   t  the typeof tag ("null" and "promise" are kept apart from "object") *)
(*   n  the number of a number, the identity of a promise or of a symbol   *)
(*   s  the characters of a string, the description of a symbol            *)
(*   o  the own enumerable properties of an object, in insertion order     *)
(***************************************************************************)
Undefined == [t |-> "undefined", n |-> 0, s |-> "", o |-> <<>>]
Null == [t |-> "null", n |-> 0, s |-> "", o |-> <<>>]
Num(n) == [t |-> "number", n |-> n, s |-> "", o |-> <<>>]
Str(s) == [t |-> "string", n |-> 0, s |-> s, o |-> <<>>]
Obj(props) == [t |-> "object", n |-> 0, s |-> "", o |-> props]
PromiseRef(p) == [t |-> "promise", n |-> p, s |-> "", o |-> <<>>]
Sym(id, description) == [t |-> "symbol", n |-> id, s |-> description, o |-> <<>>]
Prop(k, v) == [k |-> k, v |-> v]

\* typeof v === 'object' (true of null, of objects and of promises)
TypeofObject(v) == v.t \in {"object", "null", "promise"}

\* ToBoolean(v): undefined, null, 0 and "" are falsy; objects and promises are truthy
Truthy(v) ==
    CASE v.t = "undefined" -> FALSE
      [] v.t = "null" -> FALSE
      [] v.t = "number" -> v.n # 0
      [] v.t = "string" -> v.s # ""
      [] OTHER -> TRUE

\* Number.prototype.toString for the numbers the model uses
Digits == <<"0", "1", "2", "3", "4", "5", "6", "7", "8", "9">>
NumToString(n) ==
    IF n < 0 THEN "-" \o Digits[(0 - n) + 1] ELSE Digits[n + 1]

\* String(v), as a template literal `${v}` and v.toString() compute it (a symbol
\* is only ever converted by toString(); no object of the model holds one)
ToStr(v) ==
    CASE v.t = "undefined" -> "undefined"
      [] v.t = "null" -> "null"
      [] v.t = "number" -> NumToString(v.n)
      [] v.t = "string" -> v.s
      [] v.t = "promise" -> "[object Promise]"
      [] v.t = "symbol" -> "Symbol(" \o v.s \o ")"
      [] OTHER -> "[object Object]"

\* Object.keys(arg): the own property names in insertion order
ObjectKeys(arg) == [i \in 1..Len(arg.o) |-> arg.o[i].k]

\* arg[key]: the property's value, undefined when arg has no such property
GetProp(arg, key) ==
    IF \E i \in 1..Len(arg.o) : arg.o[i].k = key
    THEN arg.o[CHOOSE i \in 1..Len(arg.o) : arg.o[i].k = key].v
    ELSE Undefined

(***************************************************************************)
(* Cache.objectCacheKey (types.ts 132-138):                                *)
(*   keys.slice().sort().map(key => `${key}:${arg[key]}`).join('-')        *)
(***************************************************************************)
\* the property names of the model in Array.prototype.sort's (code unit) order
KeyOrder == <<"id", "name", "ts">>
KeyRank(k) == CHOOSE i \in 1..Len(KeyOrder) : KeyOrder[i] = k

RECURSIVE InsertSorted(_, _)
InsertSorted(k, sorted) ==
    IF sorted = <<>> THEN <<k>>
    ELSE IF KeyRank(k) < KeyRank(Head(sorted)) THEN <<k>> \o sorted
    ELSE <<Head(sorted)>> \o InsertSorted(k, Tail(sorted))

RECURSIVE SortKeys(_)
SortKeys(keys) ==
    IF keys = <<>> THEN <<>> ELSE InsertSorted(Head(keys), SortKeys(Tail(keys)))

RECURSIVE Join(_, _)
Join(parts, sep) ==
    IF parts = <<>> THEN ""
    ELSE IF Len(parts) = 1 THEN parts[1]
    ELSE parts[1] \o sep \o Join(Tail(parts), sep)

objectCacheKey(keys, arg) ==
    LET sorted == SortKeys(keys)
    IN  Join([i \in 1..Len(sorted) |->
                 sorted[i] \o ":" \o ToStr(GetProp(arg, sorted[i]))], "-")

(***************************************************************************)
(* Cache.call (types.ts 145-161).  args is the argument list (of length 0  *)
(* or 1), on is cacheOnObjectParams (<<>> when undefined), m is the        *)
(* private Map, fnResult is what this.fn(...args) returns if it is         *)
(* invoked.                                                                *)
(***************************************************************************)
\* const arg = args[0] ?? 'default-key'
DefaultedArg(args) ==
    IF Len(args) = 0 \/ args[1].t \in {"undefined", "null"}
    THEN Str("default-key")
    ELSE args[1]

\* lines 147-154
CacheKeyAllKeys(on, args) ==
    LET arg == DefaultedArg(args)
    IN  IF arg.t \notin {"object", "promise"} THEN ToStr(arg)
        ELSE objectCacheKey(ObjectKeys(arg), arg)
CacheKey(on, args) ==
    LET arg == DefaultedArg(args)
    IN  IF arg.t \notin {"object", "promise"} THEN ToStr(arg)
        ELSE IF on # <<>> THEN objectCacheKey(on, arg)
        ELSE objectCacheKey(ObjectKeys(arg), arg)

\* Map.prototype.has / get / set / clear
MapHas(m, key) == key \in DOMAIN m
MapGet(m, key) == IF key \in DOMAIN m THEN m[key] ELSE Undefined
MapSetDropped(m, key, v) == m
MapSet(m, key, v) == [k \in DOMAIN m \cup {key} |-> IF k = key THEN v ELSE m[k]]
EmptyMap == [k \in {} |-> Undefined]

\* line 156: if (!result)
CacheMissAlways(result) == TRUE
CacheMiss(result) == ~Truthy(result)

\* lines 155-160: the Map after the call, the value returned, whether fn ran
CacheCall(m, on, args, fnResult) ==
    LET key == CacheKey(on, args)
        result == MapGet(m, key)
    IN  IF CacheMiss(result)
        THEN [map |-> MapSet(m, key, fnResult), result |-> fnResult,
              invoked |-> TRUE, key |-> key, present |-> MapHas(m, key),
              stored |-> result]
        ELSE [map |-> m, result |-> result,
              invoked |-> FALSE, key |-> key, present |-> MapHas(m, key),
              stored |-> result]

\* line 164: clear = () => this.cache.clear()
CacheClearKept(m) == m
CacheClear(m) == EmptyMap

(***************************************************************************)
(* The state.                                                              *)
(***************************************************************************)
VARIABLES
    fnKind,               \* the wrapped function: "async" returns a promise, "sync" a value
    cacheOnObjectParams,  \* Cache.cacheOnObjectParams, <<>> when undefined
    cacheMap,             \* Cache.cache, the private Map
    promise,              \* the state of every promise created so far
    callCount,            \* how often the wrapped function ran (the tests' callCount)
    window,               \* per key, since the last clear(): calls, invocations, results, arguments
    lastCall,             \* what the last Cache.call found and did
    cacheCalls,           \* how often Cache.call ran
    clears,               \* how often clear() ran
    callerArgs            \* the argument lists the callers of the scenario pass

cacheVars == <<fnKind, cacheOnObjectParams, cacheMap, callCount, window, lastCall,
              cacheCalls, clears, callerArgs>>

\* A transformer instance is named by its signature (abstractTransformer.ts 126:
\* crypto.randomUUID(), one per instance): P is a parent, C a transformer it nests,
\* G one that C nests.
Signatures == {"P", "C", "G"}

VARIABLES
    scope,                  \* what the callers of the scenario pass to the entry points
    clearCacheOnTransform,  \* per transformer: AbstractTransformer.clearCacheOnTransform
    includesMap,            \* per transformer: the own keys of includesMap and what they hold
    cache,                  \* per transformer: the Map of each Cache in its cache record
    transformers,           \* per transformer: its transformers record, in key order
    transformerBackup,      \* per transformer: AbstractTransformer.transformerBackup
    factoryCache,           \* per transformer and key: the Map of a factory Cache in transformers
    built,                  \* per transformer and key: how often that factory ran
    calls,                  \* the transform calls in flight
    started,                \* how many transform calls were started
    manualClears,           \* how many clearCache() calls the callers made
    fetchCount,             \* per transformer: how often its wrapped fetch ran (the tests' counters)
    ev                      \* the last step taken

transformerVars == <<scope, clearCacheOnTransform, includesMap, cache, transformers,
                     transformerBackup, factoryCache, built, calls, started,
                     manualClears, fetchCount, ev>>

vars == <<cacheVars, promise, transformerVars>>

(***************************************************************************)
(* A Cache used on its own, as tests/cache.test.ts uses it.                *)
(***************************************************************************)
\* the arguments the callers pass
CacheArgs ==
    { <<>>,
      <<Num(1)>>,
      <<Str("1")>>,
      <<Num(0)>>,
      <<Obj(<<Prop("id", Num(1)), Prop("name", Str("a"))>>)>>,
      <<Obj(<<Prop("name", Str("a")), Prop("id", Num(1))>>)>>,
      <<Obj(<<Prop("id", Num(2)), Prop("name", Str("a"))>>)>> }

\* object arguments that share or differ in their fields, their order and the
\* types of their values (cache.test.ts 346-444)
ObjectArgs ==
    { <<Obj(<<Prop("id", Num(1)), Prop("name", Str("a"))>>)>>,
      <<Obj(<<Prop("name", Str("a")), Prop("id", Num(1))>>)>>,
      <<Obj(<<Prop("id", Num(1)), Prop("name", Str("b"))>>)>>,
      <<Obj(<<Prop("id", Str("1")), Prop("name", Str("a"))>>)>>,
      <<Obj(<<Prop("id", Num(2)), Prop("name", Str("a"))>>)>>,
      <<Obj(<<Prop("id", Str("1-name:a"))>>)>> }

\* negative numbers, the empty string, null, undefined and symbols
\* (cache.test.ts 315-343)
PrimitiveArgs ==
    { <<Num(-1)>>,
      <<Num(-2)>>,
      <<Str("")>>,
      <<Null>>,
      <<Undefined>>,
      <<Sym(1, "s")>>,
      <<Sym(2, "t")>> }

\* what a synchronous wrapped function may return
SyncReturns == {Num(0), Num(1)}

NoCall == [op |-> "none", key |-> "", present |-> FALSE, stored |-> Undefined,
           storedState |-> "none", result |-> Undefined, invoked |-> FALSE,
           afterClear |-> FALSE]

NextPromise == Cardinality(DOMAIN promise) + 1
NewPromise(ps) == [p \in DOMAIN ps \cup {Cardinality(DOMAIN ps) + 1} |->
                      IF p \in DOMAIN ps THEN ps[p] ELSE "pending"]
NoPromises == [p \in {} |-> "pending"]
\* the state of the promise a value is, "none" for what is no promise
PromiseState(v) == IF v.t = "promise" THEN promise[v.n] ELSE "none"

WindowOf(key) ==
    IF key \in DOMAIN window THEN window[key]
    ELSE [calls |-> 0, invoked |-> 0, results |-> {}, args |-> {}]

CacheConstructed ==
    /\ fnKind \in {"async", "sync"}
    /\ cacheOnObjectParams \in {<<>>, <<"id">>, <<"name", "id">>}
    /\ callerArgs \in {CacheArgs, ObjectArgs, PrimitiveArgs}
    /\ cacheMap = EmptyMap
    /\ promise = NoPromises
    /\ callCount = 0
    /\ window = [k \in {} |-> 0]
    /\ lastCall = NoCall
    /\ cacheCalls = 0
    /\ clears = 0

\* cache.call(...args) with the wrapped function returning fnResult if it runs
DoCacheCall(args, fnResult) ==
    LET r == CacheCall(cacheMap, cacheOnObjectParams, args, fnResult)
        w == WindowOf(r.key)
    IN  /\ cacheMap' = r.map
        /\ callCount' = IF r.invoked THEN callCount + 1 ELSE callCount
        /\ promise' = IF r.invoked /\ fnResult.t = "promise"
                      THEN NewPromise(promise) ELSE promise
        /\ window' = [k \in DOMAIN window \cup {r.key} |->
                        IF k = r.key
                        THEN [calls |-> w.calls + 1,
                              invoked |-> w.invoked + (IF r.invoked THEN 1 ELSE 0),
                              results |-> w.results \cup {r.result},
                              args |-> w.args \cup {args}]
                        ELSE window[k]]
        /\ lastCall' = [op |-> "call", key |-> r.key, present |-> r.present,
                        stored |-> r.stored, storedState |-> PromiseState(r.stored),
                        result |-> r.result,
                        invoked |-> r.invoked, afterClear |-> clears > 0]
        /\ cacheCalls' = cacheCalls + 1
        /\ UNCHANGED <<fnKind, cacheOnObjectParams, clears, callerArgs>>
        /\ UNCHANGED transformerVars

\* a caller calls the cache of an async function
CallAsync ==
    /\ fnKind = "async"
    /\ cacheCalls < MaxCacheCalls
    /\ \E args \in callerArgs : DoCacheCall(args, PromiseRef(NextPromise))

\* a caller calls the cache of a synchronous function
CallSync ==
    /\ fnKind = "sync"
    /\ cacheCalls < MaxCacheCalls
    /\ \E args \in callerArgs : \E v \in SyncReturns : DoCacheCall(args, v)

\* the promise an async wrapped function returned settles
Settle ==
    /\ \E p \in DOMAIN promise : \E outcome \in {"resolved", "rejected"} :
          /\ promise[p] = "pending"
          /\ promise' = [promise EXCEPT ![p] = outcome]
    /\ UNCHANGED cacheVars
    /\ UNCHANGED transformerVars

\* cache.clear()
Clear ==
    /\ clears < MaxClears
    /\ cacheMap' = CacheClear(cacheMap)
    /\ window' = [k \in {} |-> 0]
    /\ lastCall' = [NoCall EXCEPT !.op = "clear"]
    /\ clears' = clears + 1
    /\ UNCHANGED <<fnKind, cacheOnObjectParams, promise, callCount, cacheCalls,
                   callerArgs>>
    /\ UNCHANGED transformerVars

(***************************************************************************)
(* The transformers records and the walks over them.                       *)
(***************************************************************************)
\* an entry of a transformers record: an instance, or a Cache around a factory
Instance(name, target) == [name |-> name, kind |-> "instance", target |-> target]
Factory(name, target) == [name |-> name, kind |-> "factory", target |-> target]

\* the transformer a factory returns, as the value its Cache stores
TransformerValue(t) == [t |-> "object", n |-> 0, s |-> t, o |-> <<>>]

(***************************************************************************)
(* abstractTransformer.ts 162-171, 174-184, 191-200: the two walks over    *)
(* the transformers records.  A walk's state w holds the visited set, the  *)
(* flags, the data caches, the factory caches and which transformers       *)
(* had their caches cleared.                                               *)
(***************************************************************************)
WalkStateFlagsReset(visited) ==
    [visited |-> visited, flag |-> scope.options, cache |-> cache,
     factory |-> factoryCache, built |-> built, cleared |-> {}, visits |-> <<>>]
WalkState(visited) ==
    [visited |-> visited, flag |-> clearCacheOnTransform, cache |-> cache,
     factory |-> factoryCache, built |-> built, cleared |-> {}, visits |-> <<>>]

\* 'call' in transformer ? transformer.call() : transformer  (168, 180-182, 196-198)
\* r is what the call of the factory Cache did: the factory ran if it held nothing
FactoryCalled(owner, entry, w, r) ==
    [target |-> r.result.s,
     w |-> [w EXCEPT !.factory[owner][entry.name] = r.map,
                     !.built[owner][entry.name] =
                         w.built[owner][entry.name] + (IF r.invoked THEN 1 ELSE 0)]]
ResolveEntry(owner, entry, w) ==
    IF entry.kind = "factory"
    THEN FactoryCalled(owner, entry, w,
                       CacheCall(w.factory[owner][entry.name], <<>>, <<>>,
                                 TransformerValue(entry.target)))
    ELSE [target |-> entry.target, w |-> w]

\* Object.keys(this.cache).forEach(key => this.cache[key]?.clear())  (164)
ClearOwnCachesSkipped(t, w) == w
ClearOwnCachesEverywhere(t, w) ==
    [w EXCEPT !.cache = [u \in DOMAIN w.cache |->
                            [name \in DOMAIN w.cache[u] |-> CacheClear(w.cache[u][name])]],
              !.cleared = @ \cup {t},
              !.visits = Append(@, t)]
ClearOwnCachesAndFactories(t, w) ==
    [w EXCEPT !.cache[t] = [name \in DOMAIN w.cache[t] |-> CacheClear(w.cache[t][name])],
              !.factory[t] = [name \in DOMAIN w.factory[t] |-> CacheClear(w.factory[t][name])],
              !.cleared = @ \cup {t},
              !.visits = Append(@, t)]
ClearOwnCaches(t, w) ==
    [w EXCEPT !.cache[t] = [name \in DOMAIN w.cache[t] |-> CacheClear(w.cache[t][name])],
              !.cleared = @ \cup {t},
              !.visits = Append(@, t)]

\* if (clearedFor.has(this.signature)) return  (163)
AlreadyClearedTwice(t, w) ==
    Cardinality({i \in 1..Len(w.visits) : w.visits[i] = t}) >= 2
AlreadyCleared(t, w) == t \in w.visited

ClearEachShallow(t, i, w) == w
RECURSIVE ClearWalk(_, _), ClearEach(_, _, _)
\* _clearCache(clearedFor)  (162-171)
ClearWalk(t, w) ==
    IF AlreadyCleared(t, w) THEN w
    ELSE LET w1 == ClearOwnCaches(t, w)
         IN  ClearEach(t, 1, [w1 EXCEPT !.visited = @ \cup {t}])
ClearEach(t, i, w) ==
    IF i > Len(transformers[t]) THEN w
    ELSE LET r == ResolveEntry(t, transformers[t][i], w)
         IN  ClearEach(t, i + 1, ClearWalk(r.target, r.w))

\* clearCache = () => this._clearCache()  (160)
clearCacheStopsAtFilled(t) ==
    IF \E name \in DOMAIN cache[t] : cache[t][name] # EmptyMap
    THEN ClearOwnCaches(t, WalkState({}))
    ELSE ClearWalk(t, WalkState({}))
clearCache(t) == ClearWalk(t, WalkState({}))

DisableWalkIdle(t, w) == w
RECURSIVE DisableWalk(_, _), DisableEach(_, _, _)
\* disableClearCacheForTransformers(visited)  (174-184)
DisableWalk(t, w) ==
    IF t \in w.visited THEN w
    ELSE DisableEach(t, 1, [w EXCEPT !.visited = @ \cup {t}, !.flag[t] = FALSE,
                                     !.visits = Append(@, t)])
DisableEach(t, i, w) ==
    IF i > Len(transformers[t]) THEN w
    ELSE LET r == ResolveEntry(t, transformers[t][i], w)
         IN  DisableEach(t, i + 1, DisableWalk(r.target, r.w))

\* onBeforeTransform  (191-200); the backup is taken by the action
onBeforeTransformFromEmpty(t) == DisableEach(t, 1, WalkState({}))
onBeforeTransform(t) == DisableEach(t, 1, WalkState({t}))

\* the entry points that run onBeforeTransform, the clear and onAfterTransform
\* (246-279); transform and transformMany (211-238) do not
IsManagedAll(kind) == TRUE
IsManaged(kind) == kind \in {"_transform", "_transformMany"}

\* if (this.clearCacheOnTransform) this.clearCache()  (256, 276)
ClearsOnFinishAlways(kind, flag) == IsManaged(kind)
ClearsOnFinish(kind, flag) == IsManaged(kind) /\ flag

\* 255, 275: a rejection leaves _transform at the await; only a call whose
\* pipeline resolved reaches lines 256-257 (276-277)
ReachesFinalizingAlways(outcome) == TRUE
ReachesFinalizing(outcome) == outcome = "resolved"

(***************************************************************************)
(* abstractTransformer.ts 290-319: __transform                             *)
(***************************************************************************)
Range(seq) == {seq[i] : i \in 1..Len(seq)}

\* const combinedIncludes = [...(includes || []), ...(unsafeIncludes || [])]
CombinedIncludesDefaulted(includes, unsafeIncludes) ==
    IF includes \o unsafeIncludes = <<>> THEN <<"a">> ELSE includes \o unsafeIncludes
CombinedIncludes(includes, unsafeIncludes) == includes \o unsafeIncludes

\* includes = Array.from(new Set(includes))  (293): first occurrences, in order
RECURSIVE Deduplicate(_)
DeduplicateOmitted(includes) == includes
Deduplicate(includes) ==
    IF includes = <<>> THEN <<>>
    ELSE LET front == Deduplicate(SubSeq(includes, 1, Len(includes) - 1))
             last == includes[Len(includes)]
         IN  IF last \in Range(front) THEN front ELSE Append(front, last)

\* what every object literal inherits from Object.prototype (the model keeps
\* two of its functions and the __proto__ accessor)
ObjectPrototypeNames == {"constructor", "toString", "__proto__"}

\* include in this.includesMap  (296, 298): own and inherited properties
InIncludesMapAny(include, map) == TRUE
InIncludesMap(include, map) == include \in DOMAIN map \cup ObjectPrototypeNames

\* this.includesMap[include]: what an own key holds, or what is inherited
\*   "value"      a resolver that returns a value
\*   "fetch"      a resolver that awaits this.cache.fetcher.call(input.id)
\*   "reject"     a resolver that throws or rejects
\*   "nested"     a resolver that awaits the nested transformer's fetch:
\*                this.transformers.child.cache.fetcher.call(input.id)
\*   "undefined"  an own key that holds undefined
\*   "builtin"    an inherited function, "object" the inherited Object.prototype
LookupInclude(map, include) ==
    IF include \in DOMAIN map THEN map[include]
    ELSE IF include = "__proto__" THEN "object"
    ELSE IF include \in ObjectPrototypeNames THEN "builtin"
    ELSE "undefined"

\* const otherIncludes = includes.filter(include => !(include in this.includesMap))  (296)
OtherIncludesUnfiltered(includes, map) == includes
OtherIncludes(includes, map) ==
    SelectSeq(includes, LAMBDA include : ~InIncludesMap(include, map))

\* const validIncludes = includes.filter(include => include in this.includesMap)  (297-299)
ValidIncludes(includes, map) ==
    SelectSeq(includes, LAMBDA include : InIncludesMap(include, map))

(***************************************************************************)
(* The transform calls.  A call holds one item per input; an item holds    *)
(* one resolver run per valid include, in the order of validIncludes.      *)
(***************************************************************************)
NoError == [kind |-> "none", include |-> "", message |-> ""]
\* 311-313: new Error(`[T7M] Error in include function '${include}': ${message}`)
\* include is the name in the new message, message the original error's message
IncludeErrorRethrown(include, message) == [kind |-> "thrown", include |-> "", message |-> message]
IncludeError(include, message) == [kind |-> "include", include |-> include, message |-> message]
\* 302: new Error(`Include function not found in includesMap`)
MissingError == [kind |-> "missing", include |-> "",
                 message |-> "Include function not found in includesMap"]
\* 291: the base projection threw or rejected
DataError == [kind |-> "data", include |-> "", message |-> "data failed"]

\* the message of the error a failing resolver throws, of the error a failing
\* fetch rejects with, and of the TypeError of calling what is no function
ResolverMessage(include) == "failed:" \o include
FetchMessage == "fetch failed"
NotCallableMessage == "this.includesMap[include] is not a function"

\* what a resolver yields: resolvers are deterministic in the include and the input
ResolverValue(include, input) == Str(include \o "#" \o NumToString(input))
\* Object(input, props, otherIncludes) is the input object; Object.prototype.toString
\* called on the includesMap is "[object Object]"
BuiltinValue(include, input) ==
    IF include = "constructor" THEN Obj(<<Prop("id", Num(input))>>)
    ELSE Str("[object Object]")
\* what the promise of the wrapped fetch resolves to: one object per invocation
FetchedValue(p) == [t |-> "object", n |-> p, s |-> "fetched", o |-> <<>>]

NewItemLazy(input) ==
    [input |-> input, pc |-> "data", base |-> "pending", dataCalls |-> 0,
     out |-> EmptyMap, res |-> <<>>, fwd |-> <<>>, error |-> NoError]
NewItem(input) ==
    [input |-> input, pc |-> "data", base |-> "pending", dataCalls |-> 1,
     out |-> EmptyMap, res |-> <<>>, fwd |-> <<>>, error |-> NoError]

Run(include, held, st, called, wait, val, error) ==
    [name |-> include, held |-> held, st |-> st, called |-> called,
     wait |-> wait, val |-> val, error |-> error]

\* 304: the resolver awaits this.cache.fetcher.call(input.id); r is what the
\* Cache's call did
InvokeFetch(include, held, r, acc) ==
    [acc EXCEPT !.cache["fetcher"] = r.map,
                !.promise = IF r.invoked THEN NewPromise(@) ELSE @,
                !.fetched = IF r.invoked THEN Append(@, r.key) ELSE @,
                !.res = Append(@, Run(include, held, "await", TRUE,
                                      r.result.n, Undefined, NoError))]

\* 304: the resolver awaits the fetcher Cache of the nested transformer; r is
\* what that Cache's call did
InvokeNested(include, held, r, acc) ==
    [acc EXCEPT !.nested["fetcher"] = r.map,
                !.promise = IF r.invoked THEN NewPromise(@) ELSE @,
                !.reached = IF r.invoked THEN Append(@, r.key) ELSE @,
                !.res = Append(@, Run(include, held, "await", TRUE,
                                      r.result.n, Undefined, NoError))]

\* 301-308: one include's async callback up to its first await, held being
\* this.includesMap[include]
Invoke(input, include, held, acc) ==
    CASE held = "undefined" ->
           \* 302: if (!this.includesMap[include]) throw
           [acc EXCEPT !.res = Append(@, Run(include, held, "failed", FALSE,
                                             0, Undefined, MissingError))]
      [] held = "object" ->
           \* 304: calling what is no function throws inside the try
           [acc EXCEPT !.res = Append(@, Run(include, held, "failed", FALSE,
                                             0, Undefined,
                                             IncludeError(include, NotCallableMessage)))]
      [] held = "builtin" ->
           [acc EXCEPT !.res = Append(@, Run(include, held, "await", TRUE,
                                             0, BuiltinValue(include, input), NoError))]
      [] held = "fetch" ->
           InvokeFetch(include, held,
                       CacheCall(acc.cache["fetcher"], <<>>, <<Num(input)>>,
                                 PromiseRef(Cardinality(DOMAIN acc.promise) + 1)),
                       acc)
      [] held = "nested" ->
           InvokeNested(include, held,
                        CacheCall(acc.nested["fetcher"], <<>>, <<Num(input)>>,
                                  PromiseRef(Cardinality(DOMAIN acc.promise) + 1)),
                        acc)
      [] OTHER ->
           \* "value" and "reject": the resolver runs, its result is awaited
           [acc EXCEPT !.res = Append(@, Run(include, held, "await", TRUE,
                                             0, ResolverValue(include, input), NoError))]

\* 300-308: validIncludes.map(async include => ...) up to each resolver's first
\* await.  acc holds the runs so far, the transformer's caches, the promises
\* and the keys the wrapped fetch was invoked for.
RECURSIVE InvokeAll(_, _, _, _)
InvokeAll(t, input, valid, acc) ==
    IF valid = <<>> THEN acc
    ELSE InvokeAll(t, input, Tail(valid),
                   Invoke(input, Head(valid),
                          LookupInclude(includesMap[t], Head(valid)), acc))

\* the first run that failed before its first await, if any
FirstFailed(res) ==
    IF \E j \in 1..Len(res) : res[j].st = "failed"
    THEN res[CHOOSE j \in 1..Len(res) :
                /\ res[j].st = "failed"
                /\ \A k \in 1..(j - 1) : res[k].st # "failed"].error
    ELSE NoError

AnyDone(res) == \E j \in 1..Len(res) : res[j].st = "done"
AllDone(res) == \A j \in 1..Len(res) : res[j].st = "done"

\* whether anything of the call is still to run
Pending(call) ==
    \E i \in 1..Len(call.items) :
        \/ call.items[i].pc = "data"
        \/ \E j \in 1..Len(call.items[i].res) : call.items[i].res[j].st = "await"

\* a call that has settled and has nothing left to run is dropped
KeepRunning(cs) == [c \in {d \in DOMAIN cs : cs[d].status = "running"} |-> cs[c]]
Keep(cs) == [c \in {d \in DOMAIN cs : cs[d].status = "running" \/ Pending(cs[d])} |-> cs[c]]

\* what a call delivers to its caller: nothing, or the outputs of its items
NoResult == [delivered |-> FALSE, outputs |-> <<>>]
Output(item) == [input |-> item.input, base |-> item.base, fields |-> item.out]
\* Promise.all(inputs.map(...)) resolves to the outputs in the order of the inputs (237, 275)
OutputsReversed(items) ==
    [delivered |-> TRUE,
     outputs |-> [i \in 1..Len(items) |-> Output(items[Len(items) + 1 - i])]]
Outputs(items) ==
    [delivered |-> TRUE, outputs |-> [i \in 1..Len(items) |-> Output(items[i])]]

\* Promise.all rejects with the first rejection and resolves when all resolved
OutcomeWhenAllSettled(items) ==
    IF \A i \in 1..Len(items) : items[i].pc \in {"resolved", "rejected"}
    THEN "resolved" ELSE "pending"
Outcome(items) ==
    IF \E i \in 1..Len(items) : items[i].pc = "rejected" THEN "rejected"
    ELSE IF \A i \in 1..Len(items) : items[i].pc = "resolved" THEN "resolved"
    ELSE "pending"

\* the error the call rejects with: that of the first item to reject
FirstRejection(call, item) ==
    IF call.error = NoError /\ item.pc = "rejected" THEN item.error ELSE call.error

NoParams == [inputs |-> <<>>, includes |-> <<>>, unsafeIncludes |-> <<>>]
NoSnap == [kind |-> "", t |-> "", status |-> "", params |-> NoParams,
           includes |-> <<>>, items |-> <<>>, error |-> NoError, result |-> NoResult,
           fetched |-> <<>>, reached |-> <<>>, cleared |-> FALSE, overlap |-> FALSE,
           cold |-> FALSE]
Event(op, c, call, outcome, cleared) ==
    [op |-> op, c |-> c, kind |-> call.kind, t |-> call.t, outcome |-> outcome,
     cleared |-> cleared, visits |-> <<>>, emptied |-> {}, repeated |-> FALSE,
     call |-> call]
NoEvent == Event("none", 0, NoSnap, "", {})

\* a transformer exists once it was constructed: P from the start, and so is
\* a parent that no transformers record holds; a nested one when it is a
\* direct entry of a transformers record or its factory has run
Constructed(t) ==
    \/ t = "P"
    \/ /\ transformers[t] # <<>>
       /\ \A o \in Signatures : \A i \in 1..Len(transformers[o]) :
             transformers[o][i].target # t
    \/ \E o \in Signatures : \E i \in 1..Len(transformers[o]) :
          /\ transformers[o][i].target = t
          /\ IF transformers[o][i].kind = "instance" THEN TRUE
             ELSE MapHas(factoryCache[o][transformers[o][i].name], "default-key")

FreeSlot == CHOOSE c \in 1..MaxCalls : c \notin DOMAIN calls /\ \A d \in 1..(c - 1) : d \in DOMAIN calls

CachesEmpty(t) == \A name \in DOMAIN cache[t] : cache[t][name] = EmptyMap

\* the transformers whose caches hold entries before a walk and none after it
Emptied(w) ==
    {t \in Signatures :
        /\ ~CachesEmpty(t)
        /\ \A name \in DOMAIN w.cache[t] : w.cache[t][name] = EmptyMap}

\* the calls in flight on a transformer whose caches a step cleared lose entries
MarkCleared(cs, cleared) ==
    [c \in DOMAIN cs |-> IF cs[c].t \in cleared THEN [cs[c] EXCEPT !.cleared = TRUE] ELSE cs[c]]

(***************************************************************************)
(* The entry points (211-279), up to the first await: for the managed ones *)
(* onBeforeTransform, then for every input __transform up to               *)
(* `await this.data(input, props)`.                                        *)
(***************************************************************************)
Begin(kind, t, params) ==
    /\ started < MaxCalls
    /\ started < scope.calls
    /\ Constructed(t)
    /\ LET w == IF IsManaged(kind) THEN onBeforeTransform(t) ELSE WalkState({})
           overlap == \E d \in DOMAIN calls : calls[d].t = t
           call == [kind |-> kind, t |-> t, status |-> "running", params |-> params,
                    includes |-> CombinedIncludes(params.includes, params.unsafeIncludes),
                    items |-> [i \in 1..Len(params.inputs) |-> NewItem(params.inputs[i])],
                    error |-> NoError, result |-> NoResult,
                    fetched |-> <<>>, reached |-> <<>>, cleared |-> FALSE,
                    overlap |-> overlap,
                    cold |-> CachesEmpty(t)]
           c == FreeSlot
       IN  /\ transformerBackup' = IF IsManaged(kind)
                                   THEN [transformerBackup EXCEPT ![t] = transformers[t]]
                                   ELSE transformerBackup
           /\ clearCacheOnTransform' = w.flag
           /\ factoryCache' = w.factory
           /\ built' = w.built
           /\ calls' = [d \in DOMAIN calls \cup {c} |->
                          IF d = c THEN call
                          ELSE IF calls[d].t = t THEN [calls[d] EXCEPT !.overlap = TRUE]
                          ELSE calls[d]]
           /\ ev' = [Event("start", c, call, "", {}) EXCEPT !.visits = w.visits]
    /\ started' = started + 1
    /\ UNCHANGED <<scope, includesMap, cache, transformers, manualClears, fetchCount,
                   promise, cacheVars>>

\* transform(params)  (211-221)
transform ==
    \E t \in scope.callers : \E input \in scope.inputs :
    \E includes \in scope.includes : \E unsafeIncludes \in scope.unsafeIncludes :
        Begin("transform", t, [inputs |-> <<input>>, includes |-> includes,
                              unsafeIncludes |-> unsafeIncludes])

\* transformMany(params)  (228-238)
transformMany ==
    \E t \in scope.callers : \E inputs \in scope.batches :
    \E includes \in scope.includes : \E unsafeIncludes \in scope.unsafeIncludes :
        Begin("transformMany", t, [inputs |-> inputs, includes |-> includes,
                                  unsafeIncludes |-> unsafeIncludes])

\* _transform(params)  (246-259)
_transform ==
    \E t \in scope.callers : \E input \in scope.inputs :
    \E includes \in scope.includes : \E unsafeIncludes \in scope.unsafeIncludes :
        Begin("_transform", t, [inputs |-> <<input>>, includes |-> includes,
                              unsafeIncludes |-> unsafeIncludes])

\* _transformMany(params)  (266-279)
_transformMany ==
    \E t \in scope.callers : \E inputs \in scope.batches :
    \E includes \in scope.includes : \E unsafeIncludes \in scope.unsafeIncludes :
        Begin("_transformMany", t, [inputs |-> inputs, includes |-> includes,
                                  unsafeIncludes |-> unsafeIncludes])

(***************************************************************************)
(* __transform after `await this.data(input, props)` (291-308): the        *)
(* duplicates are removed, the includes are split and every valid          *)
(* include's resolver is invoked.                                          *)
(***************************************************************************)
\* the transformer the first key of the transformers record holds
NestedOf(t) == IF transformers[t] = <<>> THEN t ELSE transformers[t][1].target

NoRuns(t) ==
    [res |-> <<>>, cache |-> cache[t], promise |-> promise, fetched |-> <<>>,
     nested |-> cache[NestedOf(t)], reached |-> <<>>]

\* 296-308: the item once every valid include's resolver was invoked
ItemIncluded(item, base, otherIncludes, failed, acc) ==
    [item |-> [item EXCEPT
                 !.base = base,
                 !.fwd = otherIncludes,
                 !.res = acc.res,
                 !.error = failed,
                 !.pc = IF failed # NoError THEN "rejected"
                        ELSE IF acc.res = <<>> THEN "resolved"
                        ELSE "run"],
     acc |-> acc]

ItemInvoked(item, base, otherIncludes, acc) ==
    ItemIncluded(item, base, otherIncludes, FirstFailed(acc.res), acc)

\* 295: if (includes.length > 0 && typeof data === 'object' && data !== null)
IncludePhaseForAnyBase(includes, base) == Len(includes) > 0
IncludePhase(includes, base) == Len(includes) > 0 /\ base = "object"

ItemAfterDataEager(t, item, base, includes) ==
    ItemInvoked(item, base, OtherIncludes(includes, includesMap[t]),
                InvokeAll(t, item.input, ValidIncludes(includes, includesMap[t]),
                          NoRuns(t)))
ItemAfterData(t, item, base, includes) ==
    IF base = "reject"
    THEN [item |-> [item EXCEPT !.pc = "rejected", !.base = base, !.error = DataError],
          acc |-> NoRuns(t)]
    ELSE IF ~IncludePhase(includes, base)
    THEN \* 295: no includes, or the base output is no object or is null
         [item |-> [item EXCEPT !.pc = "resolved", !.base = base], acc |-> NoRuns(t)]
    ELSE ItemInvoked(item, base, OtherIncludes(includes, includesMap[t]),
                     InvokeAll(t, item.input, ValidIncludes(includes, includesMap[t]),
                               NoRuns(t)))

\* the state once item i of call c has taken the step r
ItemStepped(c, i, r, after) ==
    /\ cache' = [u \in Signatures |->
                    IF u = after.t THEN r.acc.cache
                    ELSE IF u = NestedOf(after.t) THEN r.acc.nested
                    ELSE cache[u]]
    /\ promise' = r.acc.promise
    /\ fetchCount' = [u \in Signatures |->
                         IF u = after.t THEN fetchCount[u] + Len(r.acc.fetched)
                         ELSE IF u = NestedOf(after.t)
                              THEN fetchCount[u] + Len(r.acc.reached)
                         ELSE fetchCount[u]]
    /\ calls' = Keep([calls EXCEPT ![c] = after])
    /\ ev' = Event("item", c, after, "", {})

ItemResumed(c, i, r) ==
    ItemStepped(c, i, r, [calls[c] EXCEPT !.items[i] = r.item,
                                          !.error = FirstRejection(calls[c], r.item),
                                          !.fetched = @ \o r.acc.fetched,
                                          !.reached = @ \o r.acc.reached])

ContinueItem ==
    \E c \in DOMAIN calls : \E i \in 1..Len(calls[c].items) :
    \E base \in scope.dataOutcomes :
        /\ calls[c].items[i].pc = "data"
        /\ ItemResumed(c, i, ItemAfterData(calls[c].t, calls[c].items[i], base,
                                           Deduplicate(calls[c].includes)))
        /\ UNCHANGED <<scope, clearCacheOnTransform, includesMap, transformers,
                       transformerBackup, factoryCache, built, started, manualClears, cacheVars>>

\* the promise of a wrapped fetch settles
SettleFetch ==
    /\ \E p \in DOMAIN promise : \E outcome \in scope.fetchOutcomes :
          /\ promise[p] = "pending"
          /\ promise' = [promise EXCEPT ![p] = outcome]
    /\ ev' = NoEvent
    /\ UNCHANGED <<scope, clearCacheOnTransform, includesMap, cache, transformers,
                   transformerBackup, factoryCache, built, calls, started, manualClears,
                   fetchCount, cacheVars>>

(***************************************************************************)
(* 304-314: a resolver's result arrives: it is written to data[include],   *)
(* or the error is wrapped and thrown.  Promise.all (300) settles the item *)
(* with the first failure, or when every run is done.                      *)
(***************************************************************************)
ContinueResolver ==
    \E c \in DOMAIN calls : \E i \in 1..Len(calls[c].items) :
    \E j \in 1..Len(calls[c].items[i].res) :
        LET call == calls[c]
            item == call.items[i]
            run == item.res[j]
            fails == \/ run.held = "reject"
                     \/ (run.wait # 0 /\ promise[run.wait] = "rejected")
            value == IF run.wait # 0 THEN FetchedValue(run.wait) ELSE run.val
            thrown == IncludeError(run.name, IF run.wait # 0 THEN FetchMessage
                                             ELSE ResolverMessage(run.name))
            res2 == [item.res EXCEPT ![j].st = IF fails THEN "failed" ELSE "done",
                                     ![j].error = IF fails THEN thrown ELSE NoError]
            item2 == [item EXCEPT
                        !.res = res2,
                        !.out = IF fails THEN @ ELSE MapSet(@, run.name, value),
                        !.error = IF fails /\ item.pc = "run" THEN thrown ELSE @,
                        !.pc = IF item.pc # "run" THEN @
                               ELSE IF fails THEN "rejected"
                               ELSE IF AllDone(res2) THEN "resolved"
                               ELSE "run"]
            after == [call EXCEPT !.items[i] = item2,
                                  !.error = FirstRejection(call, item2)]
        IN  /\ run.st = "await"
            /\ run.wait # 0 => promise[run.wait] # "pending"
            /\ calls' = Keep([calls EXCEPT ![c] = after])
            /\ ev' = Event("resolver", c, after, "", {})
            /\ UNCHANGED <<scope, clearCacheOnTransform, includesMap, cache, transformers,
                           transformerBackup, factoryCache, built, started, manualClears,
                           fetchCount, promise, cacheVars>>

(***************************************************************************)
(* The call settles.  transform: with its item.  transformMany: with       *)
(* Promise.all of the items (237).  _transform and _transformMany: after   *)
(* the await, `if (this.clearCacheOnTransform) this.clearCache()` and      *)
(* onAfterTransform (256-257, 276-277); a rejection leaves at the await.   *)
(***************************************************************************)
Finish ==
    \E c \in DOMAIN calls :
        LET call == calls[c]
            rejected == Outcome(call.items) = "rejected"
            resolved == Outcome(call.items) = "resolved"
            finalize == IsManaged(call.kind) /\ ReachesFinalizing(Outcome(call.items))
            w == IF finalize /\ ClearsOnFinish(call.kind, clearCacheOnTransform[call.t])
                 THEN clearCache(call.t) ELSE WalkState({})
            after == [call EXCEPT !.status = Outcome(call.items),
                                  !.result = IF resolved THEN Outputs(call.items)
                                             ELSE NoResult]
        IN  /\ call.status = "running"
            /\ rejected \/ resolved
            /\ cache' = w.cache
            /\ factoryCache' = w.factory
            /\ built' = w.built
            /\ transformers' = IF finalize
                               THEN [transformers EXCEPT ![call.t] = transformerBackup[call.t]]
                               ELSE transformers
            /\ calls' = Keep(MarkCleared([calls EXCEPT ![c] = after], w.cleared))
            /\ ev' = [Event("finish", c, after, after.status, w.cleared)
                        EXCEPT !.visits = w.visits, !.emptied = Emptied(w)]
            /\ UNCHANGED <<scope, clearCacheOnTransform, includesMap, transformerBackup,
                           started, manualClears, fetchCount, promise, cacheVars>>

\* a caller calls transformer.clearCache()  (160)
ManualClearCache ==
    \E t \in scope.callers :
        LET w == clearCache(t)
        IN  /\ manualClears < scope.clears
            /\ Constructed(t)
            /\ cache' = w.cache
            /\ factoryCache' = w.factory
            /\ built' = w.built
            /\ calls' = MarkCleared(calls, w.cleared)
            /\ manualClears' = manualClears + 1
            /\ ev' = [NoEvent EXCEPT !.op = "clearCache", !.t = t,
                                      !.cleared = w.cleared, !.visits = w.visits,
                                      !.emptied = Emptied(w),
                                      !.repeated = (ev.op = "clearCache" /\ ev.t = t)]
            /\ UNCHANGED <<scope, clearCacheOnTransform, includesMap, transformers,
                           transformerBackup, started, fetchCount, promise, cacheVars>>

(***************************************************************************)
(* The scenarios.                                                          *)
(***************************************************************************)
NoCalls == [c \in {} |-> NoSnap]

\* a scenario: who is called, with what, and how the callbacks behave
\*   options   the constructor's clearCacheOnTransform parameter (134-136)
NoScope ==
    [calls |-> 0, clears |-> 0, callers |-> {}, inputs |-> {}, batches |-> {}, includes |-> {},
     unsafeIncludes |-> {}, dataOutcomes |-> {}, fetchOutcomes |-> {},
     options |-> [t \in Signatures |-> TRUE]]

\* no Cache is used on its own
CacheIdle ==
    /\ fnKind = "async"
    /\ cacheOnObjectParams = <<>>
    /\ cacheMap = EmptyMap
    /\ callCount = 0
    /\ window = [k \in {} |-> 0]
    /\ lastCall = NoCall
    /\ cacheCalls = 0
    /\ clears = 0
    /\ callerArgs = {}

\* the factory Caches of the transformers records, all empty
FactoryCaches(records) ==
    [t \in Signatures |->
        [name \in {records[t][i].name : i \in {j \in 1..Len(records[t]) :
                                                  records[t][j].kind = "factory"}}
            |-> EmptyMap]]

\* transformers built as the tests build them: every one with a `fetcher`
\* Cache, the constructor's parameter as its flag, nothing called yet
Construct(sc, records, maps) ==
    /\ scope = sc
    /\ clearCacheOnTransform = sc.options
    /\ includesMap = maps
    /\ cache = [t \in Signatures |-> [name \in {"fetcher"} |-> EmptyMap]]
    /\ transformers = records
    /\ transformerBackup = [t \in Signatures |-> <<>>]
    /\ factoryCache = FactoryCaches(records)
    /\ built = [t \in Signatures |-> [name \in DOMAIN FactoryCaches(records)[t] |-> 0]]
    /\ calls = NoCalls
    /\ started = 0
    /\ manualClears = 0
    /\ fetchCount = [t \in Signatures |-> 0]
    /\ ev = NoEvent
    /\ promise = NoPromises

\* no transformer is used
TransformersIdle ==
    /\ scope = NoScope
    /\ clearCacheOnTransform = NoScope.options
    /\ includesMap = [t \in Signatures |-> EmptyMap]
    /\ cache = [t \in Signatures |-> EmptyMap]
    /\ transformers = [t \in Signatures |-> <<>>]
    /\ transformerBackup = [t \in Signatures |-> <<>>]
    /\ factoryCache = [t \in Signatures |-> EmptyMap]
    /\ built = [t \in Signatures |-> EmptyMap]
    /\ calls = NoCalls
    /\ started = 0
    /\ manualClears = 0
    /\ fetchCount = [t \in Signatures |-> 0]
    /\ ev = NoEvent

NextCache == CallAsync \/ CallSync \/ Settle \/ Clear
InitCache ==
    /\ CacheConstructed
    /\ TransformersIdle

SpecCache == InitCache /\ [][NextCache]_vars

\* tests/subTransformer.test.ts: a parent with a nested transformer, directly,
\* through a factory Cache, or with the nested one pointing back at the parent
Nestings ==
    { [P |-> <<Instance("child", "C")>>, C |-> <<>>, G |-> <<>>],
      [P |-> <<Factory("child", "C")>>, C |-> <<>>, G |-> <<>>],
      [P |-> <<Instance("child", "C")>>, C |-> <<Instance("parent", "P")>>, G |-> <<>>] }

FetchingMaps == [t \in Signatures |-> [include \in {"avatar"} |-> "fetch"]]

\* the lifecycle: both transformers are called through all four entry points
Init ==
    /\ CacheIdle
    /\ \E records \in Nestings : \E options \in {o \in [Signatures -> BOOLEAN] : o["G"]} :
          Construct([calls |-> MaxCalls, clears |-> MaxManualClears, callers |-> {"P", "C"}, inputs |-> {1},
                     batches |-> {<<1>>}, includes |-> {<<"avatar">>},
                     unsafeIncludes |-> {<<>>}, dataOutcomes |-> {"object"},
                     fetchOutcomes |-> {"resolved", "rejected"}, options |-> options],
                    records, FetchingMaps)

Next ==
    \/ transform
    \/ transformMany
    \/ _transform
    \/ _transformMany
    \/ ContinueItem
    \/ SettleFetch
    \/ ContinueResolver
    \/ Finish
    \/ ManualClearCache

Spec == Init /\ [][Next]_vars

\* tests/subTransformer.test.ts 496-570: three levels of nesting, directly or
\* through factory Caches; with every transformer pointing back; with one
\* transformer nested twice
DeepNestings ==
    { [P |-> <<Instance("child", "C")>>, C |-> <<Instance("child", "G")>>, G |-> <<>>],
      [P |-> <<Factory("child", "C")>>, C |-> <<Factory("child", "G")>>, G |-> <<>>],
      [P |-> <<Instance("child", "C")>>,
       C |-> <<Instance("parent", "P"), Instance("child", "G")>>,
       G |-> <<Instance("root", "P")>>],
      [P |-> <<Instance("child", "C"), Instance("grandchild", "G")>>,
       C |-> <<Instance("child", "G")>>, G |-> <<>>] }

\* clearCache() on nested transformers whose caches single calls have filled
InitClear ==
    /\ CacheIdle
    /\ \E records \in DeepNestings : \E option \in BOOLEAN :
          Construct([calls |-> MaxCalls, clears |-> MaxRepeatedClears, callers |-> Signatures, inputs |-> {1},
                     batches |-> {}, includes |-> {<<"avatar">>},
                     unsafeIncludes |-> {<<>>}, dataOutcomes |-> {"object"},
                     fetchOutcomes |-> {"resolved"},
                     options |-> [t \in Signatures |-> option]],
                    records, FetchingMaps)

NextClear ==
    \/ transform
    \/ _transform
    \/ ContinueItem
    \/ SettleFetch
    \/ ContinueResolver
    \/ Finish
    \/ ManualClearCache

SpecClear == InitClear /\ [][NextClear]_vars

\* two parents that nest one transformer and whose resolvers await its fetch;
\* a parent and a nested transformer that point at each other
SharedNesting ==
    [P |-> <<Instance("child", "G")>>, C |-> <<Instance("child", "G")>>, G |-> <<>>]
CyclicNesting ==
    [P |-> <<Instance("child", "C")>>, C |-> <<Instance("parent", "P")>>, G |-> <<>>]

NestedMaps ==
    [t \in Signatures |->
        [include \in {"avatar"} |-> IF t = "G" THEN "fetch" ELSE "nested"]]

\* managed calls on transformers that were all constructed without options
InitShared ==
    /\ CacheIdle
    /\ \E records \in {SharedNesting, CyclicNesting} :
          Construct([calls |-> MaxCalls, clears |-> 0, callers |-> Signatures,
                     inputs |-> {1}, batches |-> {<<1, 1>>}, includes |-> {<<"avatar">>},
                     unsafeIncludes |-> {<<>>}, dataOutcomes |-> {"object"},
                     fetchOutcomes |-> {"resolved", "rejected"},
                     options |-> [t \in Signatures |-> TRUE]],
                    records, NestedMaps)

NextShared ==
    \/ _transform
    \/ _transformMany
    \/ ContinueItem
    \/ SettleFetch
    \/ ContinueResolver
    \/ Finish

SpecShared == InitShared /\ [][NextShared]_vars

\* one transformer, called with batches that repeat a key
InitBatch ==
    /\ CacheIdle
    /\ \E option \in BOOLEAN :
          Construct([calls |-> MaxCalls, clears |-> MaxManualClears, callers |-> {"P"},
                     inputs |-> {},
                     batches |-> {<<1, 1>>, <<1, 2>>}, includes |-> {<<"avatar">>},
                     unsafeIncludes |-> {<<>>}, dataOutcomes |-> {"object"},
                     fetchOutcomes |-> {"resolved"},
                     options |-> [t \in Signatures |-> option]],
                    [t \in Signatures |-> <<>>], FetchingMaps)

NextBatch ==
    \/ transformMany
    \/ _transformMany
    \/ ContinueItem
    \/ SettleFetch
    \/ ContinueResolver
    \/ Finish
    \/ ManualClearCache

SpecBatch == InitBatch /\ [][NextBatch]_vars

\* the includesMap of the transformer under test: what its own keys hold
EngineMaps ==
    { [include \in {"a"} |-> "value"],
      [include \in {"a", "b"} |-> "value"],
      [include \in {"a", "b"} |-> IF include = "a" THEN "value" ELSE "reject"],
      [include \in {"a", "b"} |-> IF include = "a" THEN "value" ELSE "undefined"],
      [include \in {"a"} |-> "fetch"] }

\* one call of one transformer, with typed and unsafe include lists
InitEngine ==
    /\ CacheIdle
    /\ \E map \in EngineMaps :
          Construct([calls |-> 1, clears |-> 0, callers |-> {"P"}, inputs |-> {1},
                     batches |-> {<<>>, <<1, 2>>},
                     includes |-> {<<>>, <<"a">>, <<"a", "a">>, <<"b", "a">>},
                     unsafeIncludes |-> {<<>>, <<"x">>, <<"a", "x">>, <<"x", "y", "x">>,
                                         <<"toString">>, <<"constructor", "x">>,
                                         <<"__proto__">>},
                     dataOutcomes |-> {"object", "number", "null", "reject"},
                     fetchOutcomes |-> {"resolved", "rejected"},
                     options |-> [t \in Signatures |-> TRUE]],
                    [t \in Signatures |-> <<>>],
                    [t \in Signatures |-> map])

NextEngine ==
    \/ transform
    \/ transformMany
    \/ _transform
    \/ _transformMany
    \/ ContinueItem
    \/ SettleFetch
    \/ ContinueResolver
    \/ Finish

SpecEngine == InitEngine /\ [][NextEngine]_vars

(***************************************************************************)
(* Properties of the Cache, under SpecCache.                               *)
(***************************************************************************)

\* C1: for a wrapped function that returns a promise, all Cache.call
\* invocations that derive the same key with no clear() in between invoke the
\* wrapped function exactly once, and every caller, also one that arrives while
\* the promise is still pending, receives that one promise.
C1_OneInvocationOnePromisePerKey ==
    fnKind = "async" =>
        \A k \in DOMAIN window :
            /\ window[k].invoked = 1
            /\ \E p \in DOMAIN promise : window[k].results = {PromiseRef(p)}
            /\ MapGet(cacheMap, k) \in window[k].results

\* C1 witness: a second caller got the cached promise while it was still pending
C1_Witness ==
    /\ fnKind = "async"
    /\ \E k \in DOMAIN window :
          /\ window[k].calls >= 2
          /\ lastCall.key = k
          /\ ~lastCall.invoked
          /\ promise[lastCall.result.n] = "pending"

\* C2: a Cache.call on a key that is present in the Map returns the stored
\* result and does not invoke the wrapped function, whatever the wrapped
\* function (async or sync) returned when the entry was stored.
C2_PresentKeyIsReturnedWithoutInvoking ==
    (lastCall.op = "call" /\ lastCall.present) =>
        (~lastCall.invoked /\ lastCall.result = lastCall.stored)

\* C3: clear() removes every entry; after it the first call for any key invokes
\* the wrapped function again and the later calls for that key hit the new
\* entry (one invocation and one result per key since the clear).
C3_ClearEmptiesThenOneInvocationPerKey ==
    /\ lastCall.op = "clear" => cacheMap = EmptyMap
    /\ clears > 0 =>
          \A k \in DOMAIN window :
              window[k].invoked = 1 /\ Cardinality(window[k].results) = 1

(***************************************************************************)
(* Properties of the lifecycle, under Spec.                                *)
(***************************************************************************)
\* every call the state still knows: those in flight and the one that just stepped
AllCalls == {calls[c] : c \in DOMAIN calls} \cup {ev.call}
HighLevel == {"transform", "transformMany"}
Batch == {"transformMany", "_transformMany"}
\* the transformers a transformer declares in its transformers record
Declared(t) == {transformers[t][i].target : i \in 1..Len(transformers[t])}

\* C4: when a _transform or _transformMany call resolves on a transformer that
\* was constructed without options, its own caches and the caches of the
\* transformers it declares are empty.
C4_DefaultTransformerIsEmptyWhenManagedCallResolves ==
    (/\ ev.op = "finish"
     /\ ev.outcome = "resolved"
     /\ ev.kind \in {"_transform", "_transformMany"}
     /\ scope.options[ev.t])
        => \A t \in {ev.t} \cup Declared(ev.t) : CachesEmpty(t)

\* C5: when a transform or transformMany call settles on a transformer that was
\* constructed without options, the transformer's caches are empty.
C5_HighLevelCallLeavesCachesCleared ==
    (/\ ev.op = "finish"
     /\ ev.kind \in HighLevel
     /\ scope.options[ev.t])
        => CachesEmpty(ev.t)

KeyOf(input) == CacheKey(<<>>, <<Num(input)>>)
InputKeys(call) == {KeyOf(call.items[i].input) : i \in 1..Len(call.items)}
Times(seq, x) == Cardinality({i \in 1..Len(seq) : seq[i] = x})
\* the batch had the cache to itself: nothing stored when it started, no other
\* call of the transformer while it ran, no clearCache() while it ran
Undisturbed(call) == call.cold /\ ~call.overlap /\ ~call.cleared

\* C7 (amended): a batch that starts on empty caches and is not overlapped by
\* another call or a clearCache() invokes the wrapped fetch at most once per
\* key, and when it resolves it has invoked it exactly once per distinct key
\* of its inputs and inputs that share a key hold the same fetched value.
C7_UndisturbedBatchFetchesOncePerKey ==
    \A call \in AllCalls :
        (call.kind \in Batch /\ Undisturbed(call)) =>
            /\ \A k \in InputKeys(call) : Times(call.fetched, k) <= 1
            /\ call.status = "resolved" =>
                  /\ \A k \in InputKeys(call) : Times(call.fetched, k) = 1
                  /\ \A i, j \in 1..Len(call.items) :
                        call.items[i].input = call.items[j].input =>
                            /\ MapHas(call.items[i].out, "avatar")
                            /\ call.items[i].out = call.items[j].out

\* an undisturbed batch with two inputs of one key resolved
C7_Witness ==
    /\ ev.op = "finish"
    /\ ev.outcome = "resolved"
    /\ ev.kind \in Batch
    /\ Undisturbed(ev.call)
    /\ Len(ev.call.items) = 2
    /\ ev.call.items[1].input = ev.call.items[2].input
    /\ Len(ev.call.fetched) = 1

\* C7 as stated: every batch that resolves has invoked the wrapped fetch
\* exactly once per distinct key of its inputs.
C7_EveryBatchFetchesOncePerKey ==
    (ev.op = "finish" /\ ev.outcome = "resolved" /\ ev.kind \in Batch)
        => \A k \in InputKeys(ev.call) : Times(ev.call.fetched, k) = 1

(***************************************************************************)
(* Properties of __transform, under SpecEngine.                            *)
(***************************************************************************)
\* the items whose include phase ran (295)
Included(call) ==
    {i \in 1..Len(call.items) :
        call.items[i].base = "object" /\ Len(call.includes) > 0}
\* M: the keys of the transformer's include-resolver map
MapKeys(call) == DOMAIN includesMap[call.t]
RunsOf(item, name) == {j \in 1..Len(item.res) : item.res[j].name = name /\ item.res[j].called}

\* C8: the list a resolver of a name in L \cap M receives holds every name of
\* L \ M and no name of L \cap M.
C8_ForwardedListIsRequestedMinusMapKeys ==
    \A call \in AllCalls : \A i \in Included(call) :
        (\E name \in MapKeys(call) : RunsOf(call.items[i], name) # {}) =>
            Range(call.items[i].fwd) = Range(call.includes) \ MapKeys(call)

\* C9: in an item whose include phase ran, no name's resolver is invoked more
\* than once, every requested name that the map resolves is invoked exactly
\* once, and the resolvers run and the names forwarded are those of the
\* request with every name listed once.
C9_EachResolverRunsOncePerItem ==
    \A call \in AllCalls : \A i \in Included(call) :
        LET item == call.items[i]
            map == includesMap[call.t]
            requested == Range(call.includes)
        IN  /\ \A name \in requested : Cardinality(RunsOf(item, name)) <= 1
            /\ \A name \in requested \cap DOMAIN map :
                  map[name] # "undefined" => Cardinality(RunsOf(item, name)) = 1
            /\ {item.res[j].name : j \in 1..Len(item.res)}
                  = {name \in requested : InIncludesMap(name, map)}
            /\ Len(item.res) = Cardinality({name \in requested : InIncludesMap(name, map)})
            /\ Range(item.fwd) = {name \in requested : ~InIncludesMap(name, map)}
            /\ Len(item.fwd) = Cardinality(Range(item.fwd))

\* a call that lists a resolved name twice resolved, the field written
C9_Witness ==
    /\ ev.op = "finish"
    /\ ev.outcome = "resolved"
    /\ Times(ev.call.includes, "a") = 2
    /\ Len(ev.call.items) > 0
    /\ MapHas(ev.call.items[1].out, "a")
    /\ Cardinality(RunsOf(ev.call.items[1], "a")) = 1

\* C10: for every requested name that is no key of the include-resolver map,
\* no resolver is invoked, no field of that name is written, no error names
\* it, and it is in the forwarded list.
C10_NamesOutsideTheMapAreOnlyForwarded ==
    \A call \in AllCalls : \A i \in Included(call) :
        \A name \in Range(call.includes) \ MapKeys(call) :
            /\ \A j \in 1..Len(call.items[i].res) : call.items[i].res[j].name # name
            /\ ~MapHas(call.items[i].out, name)
            /\ call.items[i].error.include # name
            /\ name \in Range(call.items[i].fwd)

\* the resolvers of a call that were invoked and threw or rejected
Thrown(call) ==
    {ij \in UNION {{<<i, j>> : j \in 1..Len(call.items[i].res)} : i \in 1..Len(call.items)} :
        /\ call.items[ij[1]].res[ij[2]].called
        /\ call.items[ij[1]].res[ij[2]].st = "failed"}
RunAt(call, ij) == call.items[ij[1]].res[ij[2]]
\* nothing but resolvers failed in the call
OnlyResolversFailed(call) ==
    \A i \in 1..Len(call.items) :
        /\ call.items[i].base # "reject"
        /\ \A j \in 1..Len(call.items[i].res) :
              call.items[i].res[j].st = "failed" => call.items[i].res[j].called

\* C11: once a resolver that was invoked has thrown or rejected, its item is
\* rejected, the call is never resolved and delivers no output, and the error
\* made for the resolver names the include and carries the original message;
\* when nothing but resolvers failed, the call rejects with such an error.
C11_ResolverFailureRejectsWithNamedError ==
    \A call \in AllCalls : \A ij \in Thrown(call) :
        /\ RunAt(call, ij).error.kind = "include"
        /\ RunAt(call, ij).error.include = RunAt(call, ij).name
        /\ RunAt(call, ij).error.message \in {ResolverMessage(RunAt(call, ij).name), FetchMessage}
        /\ call.items[ij[1]].pc = "rejected"
        /\ call.status # "resolved"
        /\ ~call.result.delivered
        /\ OnlyResolversFailed(call) =>
              \E kl \in Thrown(call) : call.error = RunAt(call, kl).error

\* a call was rejected with the error of resolver b although resolver a had
\* written its field
C11_Witness ==
    /\ ev.op = "finish"
    /\ ev.outcome = "rejected"
    /\ ev.call.error = IncludeError("b", ResolverMessage("b"))
    /\ Len(ev.call.items) = 1
    /\ MapHas(ev.call.items[1].out, "a")
    /\ ~ev.call.result.delivered

\* the names a call selects: those requested that the map holds a resolver for
Selected(call) ==
    {name \in Range(call.includes) \cap MapKeys(call) :
        includesMap[call.t][name] \in {"value", "fetch", "reject"}}
\* what the resolver run produced
Produced(run, input) ==
    IF run.held = "fetch" THEN FetchedValue(run.wait) ELSE ResolverValue(run.name, input)

\* C12: an item whose include phase ran is resolved only when every resolver
\* run of it is done, and then its output holds for every selected name the
\* value the resolver produced; a resolved call delivers exactly these outputs.
C12_ResolvedOnlyWithEverySelectedField ==
    \A call \in AllCalls :
        /\ \A i \in Included(call) :
              call.items[i].pc = "resolved" =>
                  /\ \A j \in 1..Len(call.items[i].res) :
                        /\ call.items[i].res[j].st = "done"
                        /\ MapHas(call.items[i].out, call.items[i].res[j].name)
                        /\ call.items[i].out[call.items[i].res[j].name]
                              = IF call.items[i].res[j].held = "builtin"
                                THEN BuiltinValue(call.items[i].res[j].name, call.items[i].input)
                                ELSE Produced(call.items[i].res[j], call.items[i].input)
                  /\ \A name \in Selected(call) : MapHas(call.items[i].out, name)
        /\ call.status = "resolved" =>
              /\ \A i \in 1..Len(call.items) : call.items[i].pc = "resolved"
              /\ call.result.delivered
              /\ \A i \in 1..Len(call.items) :
                    call.result.outputs[i].fields = call.items[i].out

\* a call that selected two resolvers resolved with both fields
C12_Witness ==
    /\ ev.op = "finish"
    /\ ev.outcome = "resolved"
    /\ Selected(ev.call) = {"a", "b"}
    /\ Len(ev.call.items) = 1
    /\ ev.call.result.outputs[1].fields =
          [name \in {"a", "b"} |-> ResolverValue(name, ev.call.items[1].input)]

\* C13: a call made with no includes and no unsafeIncludes invokes no resolver
\* and no fetch and adds no field: what it delivers is the base projection of
\* every input.
C13_NoIncludesGivesTheBaseProjection ==
    \A call \in AllCalls :
        (call.params.includes = <<>> /\ call.params.unsafeIncludes = <<>>) =>
            /\ call.fetched = <<>>
            /\ \A i \in 1..Len(call.items) :
                  /\ call.items[i].res = <<>>
                  /\ call.items[i].out = EmptyMap
                  /\ call.items[i].fwd = <<>>
            /\ call.status = "resolved" =>
                  \A i \in 1..Len(call.items) :
                     call.result.outputs[i] =
                        [input |-> call.params.inputs[i], base |-> call.items[i].base,
                         fields |-> EmptyMap]

\* transform without includes resolved on a transformer that has resolvers
C13_Witness ==
    /\ ev.op = "finish"
    /\ ev.kind = "transform"
    /\ ev.outcome = "resolved"
    /\ ev.call.params.includes = <<>>
    /\ ev.call.params.unsafeIncludes = <<>>
    /\ MapKeys(ev.call) # {}
    /\ ev.call.items[1].base = "object"
    /\ ev.call.result.outputs[1].fields = EmptyMap

\* C14: a batch that resolves delivers as many outputs as it was given inputs
\* and position i holds the output of inputs[i]; no inputs give no outputs.
C14_BatchOutputsFollowTheInputs ==
    \A call \in AllCalls :
        (call.kind \in Batch /\ call.status = "resolved") =>
            /\ call.result.delivered
            /\ Len(call.result.outputs) = Len(call.params.inputs)
            /\ \A i \in 1..Len(call.params.inputs) :
                  /\ call.result.outputs[i].input = call.params.inputs[i]
                  /\ call.result.outputs[i] = Output(call.items[i])
                  /\ \A j \in 1..Len(call.items[i].res) :
                        call.items[i].res[j].held = "value" =>
                            call.result.outputs[i].fields[call.items[i].res[j].name]
                                = ResolverValue(call.items[i].res[j].name,
                                                call.params.inputs[i])

\* a batch of two resolved although the second input's fetch was issued first
C14_Witness ==
    /\ ev.op = "finish"
    /\ ev.kind \in Batch
    /\ ev.outcome = "resolved"
    /\ Len(ev.call.items) = 2
    /\ Len(ev.call.items[1].res) = 1
    /\ Len(ev.call.items[2].res) = 1
    /\ ev.call.items[2].res[1].wait = 1
    /\ ev.call.items[1].res[1].wait = 2
    /\ ev.call.result.outputs[1].input = 1
    /\ ev.call.result.outputs[2].input = 2

\* C15: a batch one of whose resolvers threw or rejected is never resolved and
\* delivers no array, whatever its other items did.
C15_OneFailedResolverRejectsTheBatch ==
    \A call \in AllCalls :
        (call.kind \in Batch /\ Thrown(call) # {}) =>
            /\ call.status # "resolved"
            /\ ~call.result.delivered
            /\ call.error # NoError

\* a batch was rejected for its second item after its first item had resolved
C15_Witness ==
    /\ ev.op = "finish"
    /\ ev.kind \in Batch
    /\ ev.outcome = "rejected"
    /\ Len(ev.call.items) = 2
    /\ ev.call.items[1].pc = "resolved"
    /\ MapHas(ev.call.items[1].out, "a")
    /\ ev.call.items[2].pc = "rejected"
    /\ ev.call.items[2].error.kind = "include"
    /\ ~ev.call.result.delivered

(***************************************************************************)
(* Properties of clearCache, under SpecClear.                              *)
(***************************************************************************)
\* the transformers reachable from those of S through the transformers records
RECURSIVE Closure(_, _)
Closure(S, n) ==
    IF n = 0 THEN S ELSE Closure(S \cup UNION {Declared(u) : u \in S}, n - 1)
Reachable(t) == Closure({t}, Cardinality(Signatures))
\* t lies on a cycle of the nested-transformers relation
OnCycle(t) == t \in Closure(Declared(t), Cardinality(Signatures))

\* C16: when clearCache() on a transformer returns, every Cache of its own
\* cache map and of the cache map of every transformer reachable from it,
\* directly or through factories, is empty, whatever the flags are.
C16_ClearCacheEmptiesEveryReachableCache ==
    ev.op = "clearCache" =>
        /\ ev.cleared = Reachable(ev.t)
        /\ \A u \in Reachable(ev.t) : CachesEmpty(u)

\* clearCache() on P emptied the caches that calls had filled on C and on G,
\* two levels down, with auto-clear disabled everywhere
C16_Witness ==
    /\ ev.op = "clearCache"
    /\ ev.t = "P"
    /\ fetchCount["C"] > 0
    /\ fetchCount["G"] > 0
    /\ \A u \in Signatures : ~scope.options[u] /\ ~clearCacheOnTransform[u]
    /\ "G" \in Reachable("P") \ Declared("P")
    /\ \A u \in Signatures : CachesEmpty(u)

\* C17: clearCache() on a transformer that lies on a cycle returns, has
\* visited every transformer reachable from it once and none twice, and
\* leaves the caches of all of them empty.
C17_ClearCacheOnACycleVisitsEachOnce ==
    (ev.op = "clearCache" /\ OnCycle(ev.t)) =>
        /\ \A u \in Reachable(ev.t) : Times(ev.visits, u) = 1
        /\ Len(ev.visits) = Cardinality(Reachable(ev.t))
        /\ \A u \in Reachable(ev.t) : CachesEmpty(u)

\* clearCache() on C, which declares P which declares C, emptied filled caches
C17_Witness ==
    /\ ev.op = "clearCache"
    /\ ev.t = "C"
    /\ "P" \in Declared("C")
    /\ "C" \in Declared("P")
    /\ fetchCount["P"] > 0
    /\ fetchCount["C"] > 0
    /\ Len(ev.visits) = 3
    /\ \A u \in Signatures : CachesEmpty(u)

(***************************************************************************)
(* Properties of the cache keys, under SpecCache.                          *)
(***************************************************************************)
\* the calls since the last clear(): the argument list and the key it was given
Recorded ==
    UNION {{[key |-> k, args |-> a] : a \in window[k].args} : k \in DOMAIN window}
IsObjectArg(args) == Len(args) = 1 /\ args[1].t = "object"
\* the set of top-level key/value pairs of an object
Pairs(arg) == {arg.o[i] : i \in 1..Len(arg.o)}
\* two objects hold the same values under the configured keys
Agree(a, b, on) == \A i \in 1..Len(on) : GetProp(a, on[i]) = GetProp(b, on[i])
\* the string forms of the values under the configured keys
StringForms(arg, on) == [i \in 1..Len(on) |-> ToStr(GetProp(arg, on[i]))]

\* C18: two calls whose object arguments have the same set of top-level
\* key/value pairs were given the same key, and the wrapped function ran at
\* most once for that key.
C18_SamePairsOneKeyOneInvocation ==
    \A x \in Recorded : \A y \in Recorded :
        (/\ IsObjectArg(x.args)
         /\ IsObjectArg(y.args)
         /\ Pairs(x.args[1]) = Pairs(y.args[1]))
        => /\ x.key = y.key
           /\ window[x.key].invoked <= 1

\* C19, as the code has it: with configured key names, two object arguments
\* were given the same key exactly when the values under the configured keys
\* have the same string forms.
C19_SameKeyIffSameStringFormsOfConfiguredKeys ==
    cacheOnObjectParams # <<>> =>
        \A x \in Recorded : \A y \in Recorded :
            (IsObjectArg(x.args) /\ IsObjectArg(y.args)) =>
                (x.key = y.key <=>
                    StringForms(x.args[1], cacheOnObjectParams)
                        = StringForms(y.args[1], cacheOnObjectParams))

\* a Cache on 'id' gave one key to two arguments with id 1 and different names
\* and another key to an argument with id 2
C19_Witness ==
    /\ cacheOnObjectParams = <<"id">>
    /\ \E x \in Recorded : \E y \in Recorded : \E z \in Recorded :
          /\ IsObjectArg(x.args) /\ IsObjectArg(y.args) /\ IsObjectArg(z.args)
          /\ GetProp(x.args[1], "id") = Num(1)
          /\ GetProp(y.args[1], "id") = Num(1)
          /\ GetProp(x.args[1], "name") # GetProp(y.args[1], "name")
          /\ x.key = y.key
          /\ GetProp(z.args[1], "id") = Num(2)
          /\ z.key # x.key

\* C19 as stated: with configured key names, two object arguments were given
\* the same key exactly when they agree on the configured keys.
C19_SameKeyIffAgreeOnConfiguredKeys ==
    cacheOnObjectParams # <<>> =>
        \A x \in Recorded : \A y \in Recorded :
            (IsObjectArg(x.args) /\ IsObjectArg(y.args)) =>
                (x.key = y.key <=>
                    Agree(x.args[1], y.args[1], cacheOnObjectParams))

\* C20: two different arguments among negative numbers, the empty string,
\* null, undefined and symbols were given two different keys.
C20_EdgePrimitivesHaveDifferentKeys ==
    \A x \in Recorded : \A y \in Recorded :
        (/\ x.args \in PrimitiveArgs
         /\ y.args \in PrimitiveArgs
         /\ x.args # y.args)
        => x.key # y.key

\* the top-level stringified key/value pairs of an object argument, restricted
\* to the configured keys when keys are configured
StringPairs(arg, on) ==
    LET keys == IF on # <<>> THEN on ELSE ObjectKeys(arg)
    IN  {<<keys[i], ToStr(GetProp(arg, keys[i]))>> : i \in 1..Len(keys)}

\* C21: two object arguments were given the same key only if their sets of
\* stringified key/value pairs are textually equal.
C21_SameKeyOnlyForEqualStringPairs ==
    \A x \in Recorded : \A y \in Recorded :
        (IsObjectArg(x.args) /\ IsObjectArg(y.args) /\ x.key = y.key)
        => StringPairs(x.args[1], cacheOnObjectParams)
               = StringPairs(y.args[1], cacheOnObjectParams)

(***************************************************************************)
(* Properties of a Cache whose wrapped function rejects, under SpecCache.  *)
(***************************************************************************)
\* the keys under which a rejected promise is stored
RejectedKeys ==
    {k \in DOMAIN cacheMap : PromiseState(cacheMap[k]) = "rejected"}

\* C22: while a rejected promise is stored under a key, no step but clear()
\* removes or replaces it, and a Cache.call with that key returns that promise
\* and does not invoke the wrapped function.
C22_RejectedPromiseStaysCachedUntilClear ==
    [][\A k \in RejectedKeys :
          /\ clears' = clears => (k \in DOMAIN cacheMap' /\ cacheMap'[k] = cacheMap[k])
          /\ (cacheCalls' = cacheCalls + 1 /\ lastCall'.key = k)
             => /\ lastCall'.result = cacheMap[k]
                /\ ~lastCall'.invoked
                /\ callCount' = callCount]_vars

\* a call found a promise that had already rejected and returned it without
\* invoking the wrapped function
C22_Witness ==
    /\ lastCall.op = "call"
    /\ lastCall.storedState = "rejected"
    /\ lastCall.result = lastCall.stored
    /\ ~lastCall.invoked
    /\ window[lastCall.key].invoked = 1
    /\ window[lastCall.key].calls >= 2

(***************************************************************************)
(* Properties of clearCache and of the flags, under SpecClear.             *)
(***************************************************************************)
\* C23: clearCache() on a transformer leaves its caches empty whatever its
\* flag is, and the filled caches of a transformer whose flag is false are
\* emptied by no step of a call on that transformer: only by a clearCache()
\* or by the clear that ends a managed call on another transformer.
C23_OnlyClearCacheEmptiesWithAutoClearOff ==
    [][/\ (ev'.op = "clearCache" /\ manualClears' = manualClears + 1)
          => \A name \in DOMAIN cache'[ev'.t] : cache'[ev'.t][name] = EmptyMap
       /\ \A t \in Signatures :
             (/\ ~clearCacheOnTransform[t]
              /\ ~CachesEmpty(t)
              /\ \A name \in DOMAIN cache'[t] : cache'[t][name] = EmptyMap)
             => \/ ev'.op = "clearCache"
                \/ ev'.op = "finish" /\ ev'.t # t]_vars

\* with auto-clear off everywhere, calls on C alone ran to their end and left
\* its cache filled; clearCache() on C then emptied it
C23_Witness ==
    /\ ev.op = "clearCache"
    /\ ev.t = "C"
    /\ "C" \in ev.emptied
    /\ ~scope.options["C"]
    /\ ~clearCacheOnTransform["C"]
    /\ calls = NoCalls
    /\ started >= 1
    /\ fetchCount["C"] > 0
    /\ fetchCount["P"] = 0
    /\ fetchCount["G"] = 0
    /\ CachesEmpty("C")

\* C24: a clearCache() that directly follows a clearCache() on the same
\* transformer changes no cache, no factory Cache, no flag and no
\* transformers record, so the calls that follow fetch as they would have
\* after the first.
C24_SecondClearCacheChangesNothing ==
    [][(/\ ev.op = "clearCache"
        /\ ev'.op = "clearCache"
        /\ ev'.t = ev.t
        /\ manualClears' = manualClears + 1)
       => /\ cache' = cache
          /\ factoryCache' = factoryCache
          /\ clearCacheOnTransform' = clearCacheOnTransform
          /\ transformers' = transformers
          /\ transformerBackup' = transformerBackup
          /\ fetchCount' = fetchCount
          /\ calls' = calls
          /\ ev'.emptied = {}
          /\ ev'.cleared = ev.cleared]_vars

\* clearCache() on P emptied filled caches of P and C, and was called again
C24_Witness ==
    /\ ev.op = "clearCache"
    /\ ev.repeated
    /\ ev.t = "P"
    /\ manualClears = 2
    /\ fetchCount["P"] > 0
    /\ fetchCount["C"] > 0
    /\ {"P", "C"} \subseteq ev.cleared
    /\ \A u \in Signatures : CachesEmpty(u)

\* the factory Caches of the transformers records that have built their transformer
Built ==
    {e \in UNION {{<<o, transformers[o][i].name>> :
                      i \in {j \in 1..Len(transformers[o]) :
                                transformers[o][j].kind = "factory"}} :
                  o \in Signatures} :
        MapHas(factoryCache[e[1]], e[2]) /\ MapHas(factoryCache[e[1]][e[2]], "default-key")}

\* C25: no factory of a transformers record runs twice, and once its Cache
\* holds the transformer it built, no step (no call, no clearCache()) removes
\* or replaces what the Cache holds.
C25_FactoryBuildsItsTransformerOnce ==
    [][/\ \A o \in Signatures : \A name \in DOMAIN built'[o] : built'[o][name] <= 1
       /\ \A e \in Built :
             /\ MapHas(factoryCache'[e[1]], e[2])
             /\ factoryCache'[e[1]][e[2]] = factoryCache[e[1]][e[2]]]_vars

\* clearCache() on P emptied the filled cache of the transformer P's factory
\* had built, and the factory Cache still holds that transformer
C25_Witness ==
    /\ ev.op = "clearCache"
    /\ ev.t = "P"
    /\ <<"P", "child">> \in Built
    /\ "C" \in ev.emptied
    /\ CachesEmpty("C")
    /\ factoryCache["P"]["child"]["default-key"] = TransformerValue("C")
    /\ built["P"]["child"] = 1

(***************************************************************************)
(* Properties of the base projection, under SpecEngine.                    *)
(***************************************************************************)
\* every resolver run of every item of a call
Runs(call) ==
    UNION {{<<i, j>> : j \in 1..Len(call.items[i].res)} : i \in 1..Len(call.items)}
\* the call requested a name that its includesMap resolves
RequestsResolver(call) ==
    \E name \in Range(call.includes) \cap MapKeys(call) :
        includesMap[call.t][name] \in {"value", "fetch", "reject"}

C27_NoResolverBeforeTheBaseProjection ==
    \A call \in AllCalls : \A i \in 1..Len(call.items) :
        /\ call.items[i].pc = "data"
           => call.items[i].res = <<>> /\ call.items[i].out = EmptyMap
        /\ call.items[i].base = "reject"
           => /\ call.items[i].res = <<>>
              /\ call.items[i].out = EmptyMap
              /\ call.items[i].pc = "rejected"
              /\ call.items[i].error = DataError

\* the base projection rejected in a call that requested a resolver
C27_Witness ==
    /\ ev.op = "finish"
    /\ ev.outcome = "rejected"
    /\ RequestsResolver(ev.call)
    /\ ev.call.error = DataError
    /\ \E i \in 1..Len(ev.call.items) :
          ev.call.items[i].base = "reject" /\ ev.call.items[i].res = <<>>

\* C28: an item whose base projection returned null or what is no object is
\* resolved with no resolver run and no field added, and the call delivers it
\* so.
C28_NoIncludePhaseForNonObjects ==
    \A call \in AllCalls : \A i \in 1..Len(call.items) :
        call.items[i].base \in {"number", "null"} =>
            /\ call.items[i].res = <<>>
            /\ call.items[i].out = EmptyMap
            /\ call.items[i].pc = "resolved"
            /\ call.result.delivered =>
                  call.result.outputs[i] = [input |-> call.items[i].input,
                                            base |-> call.items[i].base,
                                            fields |-> EmptyMap]

\* a call that requested a resolver delivered a null base output unchanged
C28_Witness ==
    /\ ev.op = "finish"
    /\ ev.outcome = "resolved"
    /\ RequestsResolver(ev.call)
    /\ Len(ev.call.items) = 1
    /\ ev.call.items[1].base = "null"
    /\ ev.call.result.outputs[1].fields = EmptyMap

\* C29, as the code has it: a run fails with the missing-resolver error
\* exactly when its name is an own key of includesMap that holds undefined; a
\* name that is no key of includesMap never makes a call fail with it.
C29_MissingErrorOnlyForKeysHoldingUndefined ==
    \A call \in AllCalls :
        /\ \A ij \in Runs(call) :
              /\ RunAt(call, ij).error = MissingError <=> RunAt(call, ij).held = "undefined"
              /\ RunAt(call, ij).held = "undefined"
                 => /\ RunAt(call, ij).name \in MapKeys(call)
                    /\ includesMap[call.t][RunAt(call, ij).name] = "undefined"
                    /\ ~RunAt(call, ij).called
        /\ call.error = MissingError
           => \E ij \in Runs(call) : RunAt(call, ij).error = MissingError

\* a call was rejected with the missing-resolver error
C29_Witness ==
    /\ ev.op = "finish"
    /\ ev.outcome = "rejected"
    /\ ev.call.error = MissingError
    /\ \E ij \in Runs(ev.call) : RunAt(ev.call, ij).held = "undefined"

\* C29 as stated: no call fails with the missing-resolver error.
C29_MissingErrorIsUnreachable ==
    \A call \in AllCalls :
        /\ call.error # MissingError
        /\ \A ij \in Runs(call) : RunAt(call, ij).error # MissingError

(***************************************************************************)
(* Properties of onBeforeTransform, under SpecClear.                       *)
(***************************************************************************)
\* C30: the step that starts _transform or _transformMany on a transformer
\* sets the flag of every other transformer reachable from it to false,
\* visits each of them once and none twice, and leaves the flag of the
\* transformer itself as it was, also when that transformer is reachable
\* from one it nests.
C30_PreparingSuspendsTheDescendantsOnly ==
    [][(ev'.op = "start" /\ started' = started + 1 /\ IsManaged(ev'.kind)) =>
          /\ \A u \in Reachable(ev'.t) \ {ev'.t} :
                /\ ~clearCacheOnTransform'[u]
                /\ Times(ev'.visits, u) = 1
          /\ Len(ev'.visits) = Cardinality(Reachable(ev'.t) \ {ev'.t})
          /\ clearCacheOnTransform'[ev'.t] = clearCacheOnTransform[ev'.t]
          /\ \A u \in Signatures \ Reachable(ev'.t) :
                clearCacheOnTransform'[u] = clearCacheOnTransform[u]]_vars

\* _transform started on P, which C and G point back to: the flags of C and G
\* went from true to false and the flag of P stayed true
C30_Witness ==
    /\ ev.op = "start"
    /\ ev.kind = "_transform"
    /\ ev.t = "P"
    /\ OnCycle("P")
    /\ \A u \in Signatures : scope.options[u]
    /\ clearCacheOnTransform["P"]
    /\ ~clearCacheOnTransform["C"]
    /\ ~clearCacheOnTransform["G"]
    /\ Len(ev.visits) = 2

(***************************************************************************)
(* Properties of the managed lifecycle, under SpecShared.                  *)
(***************************************************************************)
\* the managed calls that have started and not yet settled
ManagedRunning ==
    {c \in DOMAIN calls : IsManaged(calls[c].kind) /\ calls[c].status = "running"}

\* C31: while a managed call on a transformer is between its start and its
\* settling, no step of that call and no managed call started on a
\* transformer nested in it changes the flag of that transformer.
C31_OwnFlagUntouchedDuringManagedCall ==
    [][\A c \in ManagedRunning :
          (\/ ev'.c = c
           \/ /\ ev'.op = "start"
              /\ IsManaged(ev'.kind)
              /\ ev'.t \in Reachable(calls[c].t) \ {calls[c].t}) =>
             clearCacheOnTransform'[calls[c].t] = clearCacheOnTransform[calls[c].t]]_vars

\* C32: when a call settles on a transformer that is reachable from another
\* transformer whose managed call is still running, it clears nothing: no
\* cache of any transformer loses its entries.
C32_NestedCallClearsNothingDuringParentCall ==
    (/\ ev.op = "finish"
     /\ \E d \in ManagedRunning :
           calls[d].t # ev.t /\ ev.t \in Reachable(calls[d].t))
    => ev.cleared = {} /\ ev.emptied = {}

\* _transform on G, constructed without options, resolved while the managed
\* batch of P, which nests G and had filled G's cache, was running: the
\* entry is still there
C32_Witness ==
    /\ ev.op = "finish"
    /\ ev.kind = "_transform"
    /\ ev.t = "G"
    /\ ev.outcome = "resolved"
    /\ scope.options["G"]
    /\ \E d \in ManagedRunning :
          /\ calls[d].t = "P"
          /\ "G" \in Declared("P")
          /\ calls[d].reached # <<>>
    /\ ~CachesEmpty("G")

C34_EveryManagedCallFinalizes ==
    (/\ ev.op = "finish"
     /\ IsManaged(ev.kind)
     /\ clearCacheOnTransform[ev.t])
    => ev.t \in ev.cleared /\ CachesEmpty(ev.t)

(***************************************************************************)
(* The frame of clearCache.                                                *)
(***************************************************************************)
\* C35: a step that runs the cascading clear, by clearCache() or when a
\* managed call resolves, only empties data caches: no factory runs, no
\* Cache gains an entry, no transformer is constructed, no flag changes and
\* no wrapped fetch is invoked.
C35_ClearingOnlyEmptiesDataCaches ==
    [][(ev'.op \in {"clearCache", "finish"} /\ ev'.cleared # {}) =>
          /\ built' = built
          /\ factoryCache' = factoryCache
          /\ \A t \in Signatures : Constructed(t)' => Constructed(t)
          /\ clearCacheOnTransform' = clearCacheOnTransform
          /\ fetchCount' = fetchCount]_vars

(***************************************************************************)
(* Managed calls that overlap, under SpecShared.                           *)
(***************************************************************************)
\* the managed calls still running on transformer t
RunningOn(t) == {d \in ManagedRunning : calls[d].t = t}

\* C36: when a managed call resolves on a transformer whose flag is true
\* while another managed call on the same transformer is still running, the
\* clear empties the caches of the transformer, entries of the running call
\* included.
C36_FirstFinishEmptiesCachesOfOverlappingCall ==
    (/\ ev.op = "finish"
     /\ ev.outcome = "resolved"
     /\ IsManaged(ev.kind)
     /\ clearCacheOnTransform[ev.t]
     /\ RunningOn(ev.t) # {})
    => /\ ev.t \in ev.cleared
       /\ CachesEmpty(ev.t)
       /\ \A d \in RunningOn(ev.t) : calls[d].cleared

\* a managed batch on G resolved after another managed call on G had resolved
\* and cleared while the batch was running: the batch invoked the wrapped
\* fetch twice for key 1
C36_Witness ==
    /\ ev.op = "finish"
    /\ ev.kind = "_transformMany"
    /\ ev.t = "G"
    /\ ev.outcome = "resolved"
    /\ ev.call.overlap
    /\ ev.call.cleared
    /\ \E k \in Range(ev.call.fetched) : Times(ev.call.fetched, k) >= 2

\* the transformers that both a and b declare as nested
SharedBy(a, b) == Declared(a) \cap Declared(b)

\* C37: when a managed call resolves on a parent whose flag is true while a
\* managed call of another parent is still running, every transformer that
\* both parents declare is cleared and its caches are empty.
C37_FinishOfOneParentEmptiesSharedChild ==
    (/\ ev.op = "finish"
     /\ ev.outcome = "resolved"
     /\ IsManaged(ev.kind)
     /\ clearCacheOnTransform[ev.t])
    => \A d \in ManagedRunning :
          calls[d].t # ev.t =>
             \A g \in SharedBy(ev.t, calls[d].t) : g \in ev.cleared /\ CachesEmpty(g)

\* the managed batch of P, overlapped by no other call on P, reached the
\* wrapped fetch of G twice for key 1: G is nested in P and in C, and the
\* managed call of C resolved and cleared G between the two items of P
C37_Witness ==
    /\ ev.op = "item"
    /\ ev.kind = "_transformMany"
    /\ ev.t = "P"
    /\ SharedBy("P", "C") = {"G"}
    /\ ~ev.call.overlap
    /\ started = MaxCalls
    /\ \E k \in Range(ev.call.reached) : Times(ev.call.reached, k) >= 2
    /\ fetchCount["G"] >= 2

(***************************************************************************)
(* A managed call that rejects.                                            *)
(***************************************************************************)
\* the transformer whose fetcher Cache the resolver of t's include calls
FetcherOf(t, include) ==
    IF includesMap[t][include] = "nested" THEN NestedOf(t) ELSE t
\* the keys under which the fetcher Cache of u holds a rejected promise
StoredRejected(u) ==
    {k \in DOMAIN cache[u]["fetcher"] : promise[cache[u]["fetcher"][k].n] = "rejected"}

RejectedPending == {c \in DOMAIN calls : calls[c].status = "rejected" /\ Pending(calls[c])}

\* C39: when a call rejects while resolvers or items of it are pending,
\* nothing of them is cancelled: they are kept as they are, a resolver that
\* completes afterwards writes its field into the output object of its item,
\* and an item that resumes afterwards invokes its resolvers.
C39_PendingWorkOutlivesTheRejection ==
    [][/\ (ev'.op = "finish" /\ ev'.outcome = "rejected" /\ Pending(ev'.call)) =>
             /\ ev'.c \in DOMAIN calls'
             /\ calls'[ev'.c].items = calls[ev'.c].items
       /\ \A c \in RejectedPending : \A i \in 1..Len(calls[c].items) :
             /\ \A j \in 1..Len(calls[c].items[i].res) :
                   (/\ ev'.op = "resolver"
                    /\ ev'.c = c
                    /\ calls[c].items[i].res[j].st = "await"
                    /\ ev'.call.items[i].res[j].st = "done") =>
                      MapHas(ev'.call.items[i].out, calls[c].items[i].res[j].name)
             /\ (/\ ev'.op = "item"
                 /\ ev'.c = c
                 /\ calls[c].items[i].pc = "data"
                 /\ IncludePhase(Deduplicate(calls[c].includes), ev'.call.items[i].base)) =>
                   Len(ev'.call.items[i].res) =
                      Len(ValidIncludes(Deduplicate(calls[c].includes),
                                        includesMap[calls[c].t]))]_vars

\* transform with includes b and a: the resolver of b failed and the call
\* rejected; the resolver of a completed afterwards and wrote field a
C39_Witness ==
    /\ ev.op = "resolver"
    /\ ev.kind = "transform"
    /\ ev.call.status = "rejected"
    /\ Len(ev.call.items) = 1
    /\ Len(ev.call.items[1].res) = 2
    /\ \E j \in 1..2 :
          /\ ev.call.items[1].res[j].st = "failed"
          /\ ev.call.items[1].res[j].held = "reject"
    /\ \E j \in 1..2 :
          /\ ev.call.items[1].res[j].st = "done"
          /\ ev.call.items[1].res[j].name = "a"
    /\ MapHas(ev.call.items[1].out, "a")
    /\ ev.c \notin DOMAIN calls

\* C40: clearCache() on a transformer leaves the caches of every transformer
\* that is not reachable from it through the transformers records as they
\* were, those of a parent that declares it included.
C40_ClearCacheLeavesUnreachableCachesAlone ==
    [][(ev'.op = "clearCache" /\ manualClears' = manualClears + 1) =>
          /\ ev'.cleared \subseteq Reachable(ev'.t)
          /\ \A u \in Signatures \ Reachable(ev'.t) : cache'[u] = cache[u]]_vars

\* clearCache() on C emptied the filled caches of C and left those of P, which
\* declares C and is not reachable from it, filled
C40_Witness ==
    /\ ev.op = "clearCache"
    /\ ev.t = "C"
    /\ "C" \in Declared("P")
    /\ "P" \notin Reachable("C")
    /\ "C" \in ev.emptied
    /\ ~CachesEmpty("P")

====
